---- MODULE Spec2Model ----
(***************************************************************************)
(* Model of src/sentence.rs of kyranet/word-match: Sentence::new (the      *)
(* normalisation and the single-pass boundary scan), the getters length    *)
(* and toString, and the writes an external matcher makes to the public    *)
(* field `checked`.                                                        *)
(*                                                                         *)
(* A char is modelled as a string: an ASCII character stands for itself,   *)
(* any other character is written by its code point, "U+0130".  A Rust     *)
(* String and a Vec<char> are both sequences of chars.  Positions stored   *)
(* in `indexes` are the code's 0-based usize values; TLA+ sequences are    *)
(* 1-based, so contents[i + 1] is the character at index i.                *)
(***************************************************************************)
EXTENDS Integers, Sequences, FiniteSets

VARIABLES
    table,       \* the static confusables mapping used by replace_confusables
    sentence,    \* the argument of Sentence::new (raw input)
    canon,       \* the shadowed `sentence` of line 57 (the canonical string)
    pos,         \* how many chars `chars.next()` has yielded so far
    checked,     \* Sentence.checked
    boundaries,  \* Sentence.boundaries
    contents,    \* Sentence.contents
    indexes,     \* Sentence.indexes (the spec's wordMarkers)
    pc,          \* "start" | "loop" | "done"
    ret,         \* the value returned by the last getter call
    written      \* history: the indices the external matcher has written

vars == <<table, sentence, canon, pos, checked, boundaries, contents, indexes,
          pc, ret, written>>

-----------------------------------------------------------------------------
(* Bounds of the model *)

MaxLen == 3

MaxWrites == 1

-----------------------------------------------------------------------------
(* Characters *)

BEL == "U+0007"      \* a control character that is not whitespace
TAB == "U+0009"      \* a control character that is also whitespace
K1 == "U+0430"       \* a confusable character (a key of the table)
K2 == "U+FF41"       \* a second confusable character
IDOT == "U+0130"     \* LATIN CAPITAL LETTER I WITH DOT ABOVE
DOT == "U+0307"      \* COMBINING DOT ABOVE
SIGMA == "U+03A3"    \* GREEK CAPITAL LETTER SIGMA
SMALLSIGMA == "U+03C3"
FINALSIGMA == "U+03C2"

is_whitespace(c) == c \in {" ", TAB}

is_control(c) == c \in {BEL, TAB}

-----------------------------------------------------------------------------
(* The normaliser: replace_confusables() followed by to_lowercase() *)

Replacements1 == {<<K1>>, <<"A">>, <<"a", "a">>, <<K2>>}

Replacements2 == {<<K2>>, <<"a">>}

Tables == {[k \in {K1, K2} |-> IF k = K1 THEN v1 ELSE v2] :
               v1 \in Replacements1, v2 \in Replacements2}

ReplaceChar(t, c) == IF c \in DOMAIN t THEN t[c] ELSE <<c>>

RECURSIVE replace_confusables(_, _)
replace_confusables(t, s) ==
    IF s = <<>> THEN <<>>
    ELSE ReplaceChar(t, Head(s)) \o replace_confusables(t, Tail(s))

Cased(c) ==
    c \in {"a", "A", "b", "h", "i", "s", "S", "t", "e", "v", "d", "r", "o",
           "w", "n", IDOT, SIGMA, SMALLSIGMA, FINALSIGMA, K1, K2}

Case_Ignorable(c) == c \in {DOT, "."}

RECURSIVE case_ignorable_then_cased(_)
case_ignorable_then_cased(s) ==
    IF s = <<>> THEN FALSE
    ELSE IF Case_Ignorable(Head(s)) THEN case_ignorable_then_cased(Tail(s))
    ELSE Cased(Head(s))

Reverse(s) == [i \in 1..Len(s) |-> s[Len(s) + 1 - i]]

map_uppercase_sigma(s, i) ==
    IF /\ case_ignorable_then_cased(Reverse(SubSeq(s, 1, i - 1)))
       /\ ~case_ignorable_then_cased(SubSeq(s, i + 1, Len(s)))
    THEN <<FINALSIGMA>>
    ELSE <<SMALLSIGMA>>

to_lower(c) ==
    CASE c = "A" -> <<"a">>
      [] c = "S" -> <<"s">>
      [] c = IDOT -> <<"i", DOT>>
      [] OTHER -> <<c>>

RECURSIVE LowerFrom(_, _)
LowerFrom(s, i) ==
    IF i > Len(s) THEN <<>>
    ELSE (IF s[i] = SIGMA THEN map_uppercase_sigma(s, i) ELSE to_lower(s[i]))
         \o LowerFrom(s, i + 1)

to_lowercase(s) == LowerFrom(s, 1)

NormalizeLowerFirst(t, s) == replace_confusables(t, to_lowercase(s))

Normalize(t, s) == to_lowercase(replace_confusables(t, s))

-----------------------------------------------------------------------------
(* The boundary scanner *)

Boundary == {"Start", "Word", "End", "Mixed", "NoContent"}

is_word_no_start(b) == b \in {"Word", "End", "Mixed"}

is_word(b) == b \in {"Start", "Word", "End", "Mixed"}

None == "None"

\* chars.peek() after `n` chars have been yielded
Peek(cs, n) == IF n < Len(cs) THEN cs[n + 1] ELSE None

\* boundaries.last()
Last(bs) == IF bs = <<>> THEN None ELSE bs[Len(bs)]

BaseBoundaryWhitespaceOnly(c, bs) ==
    IF is_whitespace(c) THEN "NoContent"
    ELSE IF Last(bs) # None
         THEN (IF is_word(Last(bs)) THEN "Word" ELSE "Start")
         ELSE "Start"

\* lines 67-77
BaseBoundary(c, bs) ==
    IF is_whitespace(c) \/ is_control(c) THEN "NoContent"
    ELSE IF Last(bs) # None
         THEN (IF is_word(Last(bs)) THEN "Word" ELSE "Start")
         ELSE "Start"

UpgradeNoEndOfInput(b, nxt) ==
    IF b = "Start"
    THEN (IF nxt # None /\ (is_whitespace(nxt) \/ is_control(nxt))
          THEN "Mixed" ELSE b)
    ELSE IF b = "Word"
    THEN (IF nxt # None /\ (is_whitespace(nxt) \/ is_control(nxt))
          THEN "End" ELSE b)
    ELSE b

UpgradePeekWhitespaceOnly(b, nxt) ==
    IF b = "Start"
    THEN (IF nxt # None
          THEN (IF is_whitespace(nxt) THEN "Mixed" ELSE b)
          ELSE "Mixed")
    ELSE IF b = "Word"
    THEN (IF nxt # None
          THEN (IF is_whitespace(nxt) THEN "End" ELSE b)
          ELSE "End")
    ELSE b

\* lines 79-102, the assignments to `boundary`
Upgrade(b, nxt) ==
    IF b = "Start"
    THEN (IF nxt # None
          THEN (IF is_whitespace(nxt) \/ is_control(nxt) THEN "Mixed" ELSE b)
          ELSE "Mixed")
    ELSE IF b = "Word"
    THEN (IF nxt # None
          THEN (IF is_whitespace(nxt) \/ is_control(nxt) THEN "End" ELSE b)
          ELSE "End")
    ELSE b

PushIndexEveryWordChar(ix, b, start) ==
    IF b # "NoContent" THEN Append(ix, <<start, start>>) ELSE ix

PushIndexOffByOne(ix, b, start) ==
    IF b = "Start" THEN Append(ix, <<start + 1, start + 1>>) ELSE ix

\* lines 79-81: `b` is the boundary before the lookahead, `start` is
\* contents.len()
PushIndex(ix, b, start) ==
    IF b = "Start" THEN Append(ix, <<start, start>>) ELSE ix

PushCheckedTrue(ch) == Append(ch, TRUE)

\* line 104
PushChecked(ch) == Append(ch, FALSE)

\* line 105
PushBoundary(bs, b) == Append(bs, b)

PushContentSkipFiller(cs, c) ==
    IF is_whitespace(c) \/ is_control(c) THEN cs ELSE Append(cs, c)

\* line 106
PushContent(cs, c) == Append(cs, c)

AdvancePeekOnly(n) == n

\* chars.next() yields one char and moves the iterator past it
Advance(n) == n + 1

-----------------------------------------------------------------------------
(* The getters *)

\* `self.contents.len() as u32`: the cast truncates modulo 2^32, which is the
\* identity on every length below 2^32 (all the lengths a sequence can have
\* here)
LengthOf(cs) == Len(cs)

RECURSIVE Collect(_)
\* self.contents.iter().collect::<String>()
Collect(cs) == IF cs = <<>> THEN <<>> ELSE <<Head(cs)>> \o Collect(Tail(cs))

NoRet == [op |-> "none", len |-> 0, str |-> <<>>]

-----------------------------------------------------------------------------
(* Inputs *)

Alphabet == {"a", "A", " ", BEL, K1, K2}

BoundedInputs == UNION {[1..n -> Alphabet] : n \in 0..MaxLen}

Hi == <<"h", "i">>

SteveDrowned == <<"S", "t", "e", "v", "e", " ", "d", "r", "o", "w", "n", "e", "d">>

ExampleInputs ==
    { Hi, SteveDrowned,
      <<IDOT, "a">>,               \* lowercases to three chars
      <<"a", SIGMA>>,              \* final sigma
      <<SIGMA, "a">>,              \* non-final sigma
      <<"a", TAB, "b", ".">> }

Inputs == BoundedInputs \cup ExampleInputs

-----------------------------------------------------------------------------
(* The state machine *)

Init ==
    /\ table \in Tables
    /\ sentence \in Inputs
    /\ canon = <<>>
    /\ pos = 0
    /\ checked = <<>>
    /\ boundaries = <<>>
    /\ contents = <<>>
    /\ indexes = <<>>
    /\ pc = "start"
    /\ ret = NoRet
    /\ written = {}

\* lines 57-63: normalise, create the empty vectors and the iterator
NewEnter ==
    /\ pc = "start"
    /\ canon' = Normalize(table, sentence)
    /\ pos' = 0
    /\ checked' = <<>>
    /\ boundaries' = <<>>
    /\ contents' = <<>>
    /\ indexes' = <<>>
    /\ pc' = "loop"
    /\ UNCHANGED <<table, sentence, ret, written>>

\* lines 66-107: one iteration of `while let Some(c) = chars.next()`
ScanStep ==
    /\ pc = "loop"
    /\ pos < Len(canon)
    /\ LET c == canon[pos + 1]
           n == Advance(pos)
           base == BaseBoundary(c, boundaries)
           boundary == Upgrade(base, Peek(canon, n))
       IN /\ pos' = n
          /\ indexes' = PushIndex(indexes, base, Len(contents))
          /\ checked' = PushChecked(checked)
          /\ boundaries' = PushBoundary(boundaries, boundary)
          /\ contents' = PushContent(contents, c)
    /\ UNCHANGED <<table, sentence, canon, pc, ret, written>>

\* lines 66 and 109: chars.next() is None, the Sentence is built
NewReturn ==
    /\ pc = "loop"
    /\ pos >= Len(canon)
    /\ pc' = "done"
    /\ UNCHANGED <<table, sentence, canon, pos, checked, boundaries, contents,
                   indexes, ret, written>>

\* lines 112-115
Length ==
    /\ pc = "done"
    /\ ret' = [op |-> "length", len |-> LengthOf(contents), str |-> <<>>]
    /\ UNCHANGED <<table, sentence, canon, pos, checked, boundaries, contents,
                   indexes, pc, written>>

\* lines 117-127
js_to_string ==
    /\ pc = "done"
    /\ ret' = [op |-> "toString", len |-> 0, str |-> Collect(contents)]
    /\ UNCHANGED <<table, sentence, canon, pos, checked, boundaries, contents,
                   indexes, pc, written>>

\* the external matcher marks one character through the public field
MatcherWrite ==
    /\ pc = "done"
    /\ Cardinality(written) < MaxWrites
    /\ \E i \in 1..Len(checked) :
          /\ i \notin written
          /\ checked' = [checked EXCEPT ![i] = TRUE]
          /\ written' = written \cup {i}
    /\ UNCHANGED <<table, sentence, canon, pos, boundaries, contents, indexes,
                   pc, ret>>

Next ==
    \/ NewEnter
    \/ ScanStep
    \/ NewReturn
    \/ Length
    \/ js_to_string
    \/ MatcherWrite

Spec == Init /\ [][Next]_vars

-----------------------------------------------------------------------------
(* Vocabulary of the properties *)

Filler(c) == c \in {" ", TAB, BEL}

WordStart == {"Start", "Mixed"}

WordBearing == {"Start", "Word", "End", "Mixed"}

Canonical == to_lowercase(replace_confusables(table, sentence))

IsPrefix(s, t) == Len(s) <= Len(t) /\ SubSeq(t, 1, Len(s)) = s

\* the boundary before position i (1-based), None at the beginning
PrevOf(bs, i) == IF i = 1 THEN None ELSE bs[i - 1]

\* the canonical character after position i (1-based), None at the end
NextOf(cs, i) == IF i < Len(cs) THEN cs[i + 1] ELSE None

-----------------------------------------------------------------------------
\* C1: contents, boundaries and checked always have the same length, after
\* every iteration of the scan loop as well as at the end; the constructed
\* Sentence has one entry per character of the canonical string, and
\* length() returns that number.
C1_ParallelLengths ==
    /\ Len(contents) = Len(boundaries)
    /\ Len(boundaries) = Len(checked)
    /\ pc = "loop" => Len(contents) = pos
    /\ pc = "done" => Len(contents) = Len(Canonical)
    /\ (pc = "done" /\ ret.op = "length") => ret.len = Len(Canonical)

C1_Witness ==
    /\ pc = "done"
    /\ ret.op = "length"
    /\ Len(contents) >= 3
    /\ Len(contents) # Len(sentence)
    /\ \E i \in 1..Len(contents) : Filler(contents[i])

-----------------------------------------------------------------------------
CountStarts(bs) == Cardinality({i \in 1..Len(bs) : bs[i] \in WordStart})

\* C2: after construction the number of entries of indexes (wordMarkers)
\* equals the number of positions whose boundary is Start or Mixed.
C2_MarkerCount == pc = "done" => Len(indexes) = CountStarts(boundaries)

C2_Witness ==
    /\ pc = "done"
    /\ Len(indexes) = 2
    /\ \E i \in 1..Len(boundaries) : boundaries[i] = "Start"
    /\ \E i \in 1..Len(boundaries) : boundaries[i] = "Mixed"
    /\ \E i \in 1..Len(boundaries) : boundaries[i] = "End"

-----------------------------------------------------------------------------
C3_Classified ==
    \A i \in 1..Len(boundaries) :
        (boundaries[i] = "NoContent") <=> Filler(contents[i])

C3_NoMarker ==
    (pc = "loop" /\ pos < Len(canon) /\ Filler(canon[pos + 1]) /\ pos' = pos + 1)
        => indexes' = indexes

-----------------------------------------------------------------------------
\* C4: a Start or Mixed entry occurs only at position 0 or right after a
\* NoContent entry; a Word or End entry occurs only right after a
\* word-bearing entry, never at position 0 and never after NoContent.
C4_Adjacent ==
    \A i \in 1..Len(boundaries) :
        /\ boundaries[i] \in WordStart
              => (i = 1 \/ boundaries[i - 1] = "NoContent")
        /\ boundaries[i] \in {"Word", "End"}
              => (i > 1 /\ boundaries[i - 1] \in WordBearing)

C4_Witness ==
    /\ pc = "done"
    /\ Len(boundaries) >= 4
    /\ boundaries[1] = "NoContent"
    /\ boundaries[2] = "Start"
    /\ boundaries[3] = "Word"
    /\ boundaries[Len(boundaries)] = "End"

-----------------------------------------------------------------------------
Expected(prev, nxt) ==
    IF prev = None \/ prev = "NoContent"
    THEN (IF nxt = None \/ Filler(nxt) THEN "Mixed" ELSE "Start")
    ELSE (IF nxt = None \/ Filler(nxt) THEN "End" ELSE "Word")

\* C5: the boundary of a non-filler character is determined by the previous
\* boundary and the next character: Mixed or Start after nothing or
\* NoContent, End or Word after a word-bearing boundary, the first of each
\* pair when the next character is filler or absent.  A single non-filler
\* character gives [Mixed], "hi" gives [Start, End], and "Steve drowned"
\* gives Start Word Word Word End NoContent Start Word Word Word Word Word End.
C5_Determined ==
    /\ \A i \in 1..Len(boundaries) :
          ~Filler(contents[i])
             => boundaries[i] = Expected(PrevOf(boundaries, i), NextOf(canon, i))
    /\ (pc = "done" /\ Len(canon) = 1 /\ ~Filler(canon[1]))
          => boundaries = <<"Mixed">>
    /\ (pc = "done" /\ sentence = Hi) => boundaries = <<"Start", "End">>
    /\ (pc = "done" /\ sentence = SteveDrowned)
          => /\ contents = <<"s", "t", "e", "v", "e", " ",
                             "d", "r", "o", "w", "n", "e", "d">>
             /\ boundaries = <<"Start", "Word", "Word", "Word", "End",
                               "NoContent",
                               "Start", "Word", "Word", "Word", "Word", "Word",
                               "End">>

C5_Witness ==
    /\ pc = "done"
    /\ sentence = SteveDrowned
    /\ ret.op = "toString"

-----------------------------------------------------------------------------
RECURSIVE MarkersFrom(_, _)
MarkersFrom(bs, i) ==
    IF i > Len(bs) THEN <<>>
    ELSE (IF bs[i] \in WordStart THEN << <<i - 1, i - 1>> >> ELSE <<>>)
         \o MarkersFrom(bs, i + 1)

C6_Markers ==
    /\ indexes = MarkersFrom(boundaries, 1)
    /\ \A k \in 1..(Len(indexes) - 1) : indexes[k][1] < indexes[k + 1][1]
    /\ (pc = "done" /\ sentence = SteveDrowned)
          => indexes = << <<0, 0>>, <<6, 6>> >>
    /\ (pc = "done" /\ sentence = <<"a">>) => indexes = << <<0, 0>> >>

C6_Append ==
    /\ IsPrefix(indexes, indexes')
    /\ (pc = "loop" /\ pos' = pos + 1)
          => indexes' =
                IF /\ ~Filler(canon[pos + 1])
                   /\ (boundaries = <<>>
                         \/ boundaries[Len(boundaries)] = "NoContent")
                THEN Append(indexes, <<pos, pos>>)
                ELSE indexes

-----------------------------------------------------------------------------
\* the number of construction steps still to take
Remaining ==
    CASE pc = "start" -> Len(Canonical) + 2
      [] pc = "loop" -> Len(canon) - pos + 1
      [] OTHER -> 0

C7_Total ==
    /\ pc \in {"start", "loop", "done"}
    /\ pc # "done" => ENABLED (NewEnter \/ ScanStep \/ NewReturn)
    /\ pc = "done" => (contents = canon /\ pos = Len(canon))
    /\ (pc = "done" /\ sentence = <<>>)
          => /\ contents = <<>>
             /\ boundaries = <<>>
             /\ checked = <<>>
             /\ indexes = <<>>
             /\ LengthOf(contents) = 0
             /\ (ret.op = "length" => ret.len = 0)

C7_Progress ==
    pc # "done"
       => /\ Remaining' < Remaining
          /\ pc = "loop"
                => \/ pc' = "done" /\ pos = Len(canon) /\ pos' = pos
                   \/ /\ pc' = "loop"
                      /\ pos' = pos + 1
                      /\ contents' = Append(contents, canon[pos + 1])

\* C7: construction is total: from every input every step of Sentence::new
\* can be taken and brings the end nearer, each canonical character is
\* consumed exactly once, and the only outcome is a Sentence; from the empty
\* string it is the Sentence with empty contents, boundaries, checked and
\* indexes and length() = 0.
C7_Construction == [](C7_Total) /\ [][C7_Progress]_vars

C7_Witness ==
    /\ pc = "done"
    /\ sentence = <<>>
    /\ ret.op = "length"
    /\ ret.len = 0

-----------------------------------------------------------------------------
RenderFreeOfConfusables ==
    replace_confusables(table, Collect(contents)) = Collect(contents)

-----------------------------------------------------------------------------
C9_CheckedByMatcher ==
    pc = "done" => \A i \in 1..Len(checked) : checked[i] => i \in written

C9_Immutable ==
    pc = "done"
       => /\ contents' = contents
          /\ boundaries' = boundaries
          /\ indexes' = indexes
          /\ written' = written => checked' = checked

\* C9: right after construction every checked entry is false; afterwards
\* contents, boundaries and indexes never change, length and toString change
\* no field, and a checked entry is true only if the external matcher set it.
C9_Frame == [](C9_CheckedByMatcher) /\ [][C9_Immutable]_vars

C9_Witness ==
    /\ pc = "done"
    /\ ret.op = "toString"
    /\ written # {}
    /\ \E i \in 1..Len(checked) : checked[i]
    /\ \E i \in 1..Len(checked) : ~checked[i]

-----------------------------------------------------------------------------
\* [i..j] is a maximal run of non-filler characters of cs
MaximalRun(cs, i, j) ==
    /\ i <= j
    /\ \A k \in i..j : ~Filler(cs[k])
    /\ (i = 1 \/ Filler(cs[i - 1]))
    /\ (j = Len(cs) \/ Filler(cs[j + 1]))

\* C10: every maximal run of non-filler characters is annotated [Mixed] when
\* it has one character and Start, Word*, End otherwise; a Start or a Word is
\* always followed by Word or End, an End or a Mixed by NoContent or nothing,
\* and no Word or End ever follows an End or a Mixed.
C10_Runs ==
    /\ \A i \in 1..Len(boundaries) :
          LET b == boundaries[i]
              last == (i = Len(boundaries))
          IN /\ b \in {"Start", "Word"}
                   => IF last THEN pc = "loop" /\ pos < Len(canon)
                      ELSE boundaries[i + 1] \in {"Word", "End"}
             /\ b \in {"End", "Mixed"}
                   => (last \/ boundaries[i + 1] = "NoContent")
             /\ (i > 1 /\ b \in {"Word", "End"})
                   => boundaries[i - 1] \in {"Start", "Word"}
    /\ pc = "done"
          => \A i, j \in 1..Len(contents) :
                MaximalRun(contents, i, j)
                   => IF i = j THEN boundaries[i] = "Mixed"
                      ELSE /\ boundaries[i] = "Start"
                           /\ boundaries[j] = "End"
                           /\ \A k \in (i + 1)..(j - 1) : boundaries[k] = "Word"

C10_Witness ==
    /\ pc = "done"
    /\ \E i \in 1..(Len(boundaries) - 3) :
          /\ boundaries[i] = "Mixed"
          /\ boundaries[i + 1] = "NoContent"
          /\ boundaries[i + 2] = "Start"
          /\ boundaries[i + 3] = "End"

====
